---- MODULE Spec2Model ----
(***************************************************************************)
(* The gobank JSON API: the account table behind the Storage interface,    *)
(* the login flow that issues a JWT, and the withJWTAuth middleware in     *)
(* front of /account/{id}.  One action per route; an action is the whole   *)
(* handler, including every store call it makes.  The response written to  *)
(* the client is kept in resp until the client has read it (Deliver).      *)
(*                                                                         *)
(* Left out, because no decision of the handlers reads them: the columns   *)
(* first_name, last_name, balance and created_at, and transport errors of  *)
(* the database connection.                                                *)
(***************************************************************************)
EXTENDS Integers, Sequences, FiniteSets, TLC

\* ---------------------------------------------------------------- bounds
MaxAccounts == 2     \* rows the serial id is allowed to hand out
MaxNumber   == 2     \* account numbers NewAccount draws from: 1..MaxNumber
MaxTicks    == 1     \* clock ticks
ClockStep   == 20000 \* seconds the clock advances per tick

\* ------------------------------------------------------ program constants
ExpiresAtLiteral    == 15000
StatusOK            == 200
StatusBadRequest    == 400
StatusForbidden     == 403

VARIABLES
    secret,     \* os.Getenv("JWT_SECRET"): "" when the variable is not set
    accounts,   \* the rows of table account
    nextId,     \* the next value of the serial column id
    now,        \* the wall clock, seconds since the epoch
    resp        \* the response on its way to the client, NoResp when none

vars == <<secret, accounts, nextId, now, resp>>

\* ------------------------------------------------------------ input sets
Secrets   == {"", "s3cret"}
Numbers   == 1..MaxNumber
Passwords == {"", "hunter888", "wrong"}
Salts     == {"salt1"}
Algs      == {"HS256", "HS384", "RS256", "none"}
Methods   == {"GET", "POST", "DELETE", "PUT"}

DigitChars == <<"0", "1", "2", "3", "4", "5", "6", "7", "8", "9">>

\* The {id} segment of /account/{id}: one decimal digit per id, and a word.
PathIds == {<<"x">>} \cup {<<DigitChars[i + 1]>> : i \in 1..MaxAccounts}

\* --------------------------------------------------------------- strconv
DigitValue(c) == CHOOSE d \in 0..9 : DigitChars[d + 1] = c

IsDigit(c) == \E d \in 0..9 : DigitChars[d + 1] = c

RECURSIVE DigitsValue(_)
DigitsValue(s) ==
    IF Len(s) = 0 THEN 0
    ELSE 10 * DigitsValue(SubSeq(s, 1, Len(s) - 1)) + DigitValue(s[Len(s)])

\* strconv.Atoi: an optional sign, then one or more decimal digits.
Atoi(s) ==
    LET signed == Len(s) > 0 /\ s[1] \in {"+", "-"}
        digits == IF signed THEN Tail(s) ELSE s
    IN  IF Len(digits) = 0 \/ \E i \in 1..Len(digits) : ~IsDigit(digits[i])
        THEN [ok |-> FALSE, val |-> 0]
        ELSE [ok |-> TRUE,
              val |-> IF signed /\ s[1] = "-" THEN 0 - DigitsValue(digits)
                      ELSE DigitsValue(digits)]

\* getID with the error of Atoi dropped.
getIDIgnoringError(pathId) == [ok |-> TRUE, val |-> Atoi(pathId).val]

\* getID: mux.Vars(request)["id"] through strconv.Atoi.
getID(pathId) == Atoi(pathId)

\* ------------------------------------------------------- credential codec
\* bcrypt: the hash embeds its salt, the digest binds salt and password.
HashPassword(pw, salt) == [salt |-> salt, digest |-> <<salt, pw>>]

NoHash == [salt |-> "", digest |-> <<>>]

NoAccount == [id |-> 0, number |-> 0, encrypted_password |-> NoHash]

\* Account.ValidatePassword: re-hash under the stored hash's own salt.
ValidatePassword(acc, pw) ==
    acc.encrypted_password = HashPassword(pw, acc.encrypted_password.salt)

\* NewAccount: hash the password, draw a number.  The empty password is
\* refused by the codec.
NewAccount(pw, number, salt) ==
    IF pw = ""
    THEN [ok |-> FALSE, account |-> NoAccount]
    ELSE [ok |-> TRUE,
          account |-> [id |-> 0, number |-> number,
                       encrypted_password |-> HashPassword(pw, salt)]]

\* ------------------------------------------------------------------ store
\* insert into account (...) values (...): id is the serial column.
CreateAccount(accts, id, account) ==
    accts \cup {[id |-> id, number |-> account.number,
                 encrypted_password |-> account.encrypted_password]}

\* delete from account where id = $1
DeleteAccount(accts, id) == {a \in accts : a.id # id}

\* select * from account where id = $1: the rows the query returns.
GetAccountById(accts, id) == {a \in accts : a.id = id}

\* select * from account where number = $1: the rows the query returns, in
\* no stated order; the caller takes the first.
GetAccountByNumber(accts, number) == {a \in accts : a.number = number}

\* ------------------------------------------------------------------- jwt
IsHMAC(alg) == alg \in {"HS256", "HS384", "HS512"}

NoExp == 0 - 1

NoClaims == [accountNumber |-> 0, expiresAt |-> 0, exp |-> NoExp]

\* The MAC of msg under key: an ideal MAC, equal only on equal arguments.
HMAC(alg, key, msg) == [alg |-> alg, key |-> key, msg |-> msg]

NoSig == HMAC("", "", <<"", NoClaims>>)

NoToken == [alg |-> "", claims |-> NoClaims, sig |-> NoSig]

SigningString(alg, claims) == <<alg, claims>>

\* token.SignedString(key) for an HMAC method: no key is refused, the empty
\* one included.
SignedString(alg, claims, key) ==
    [alg |-> alg, claims |-> claims,
     sig |-> HMAC(alg, key, SigningString(alg, claims))]

\* createJWT: claims expiresAt (a literal) and accountNumber, HS256, signed
\* with the environment's JWT_SECRET.
createJWT(account, sec) ==
    SignedString("HS256",
                 [accountNumber |-> account.number,
                  expiresAt |-> ExpiresAtLiteral, exp |-> NoExp],
                 sec)

\* MapClaims.Valid: only the registered claim exp is compared with the clock
\* (iat and nbf are never set here); a claim named expiresAt is not read.
MapClaimsValid(claims, t) == claims.exp = NoExp \/ t < claims.exp

\* Method.Verify with a []byte key: the HMAC methods recompute the MAC, the
\* RSA methods and none refuse a key of that type.
SigningMethodVerify(alg, msg, sig, key) ==
    IsHMAC(alg) /\ sig = HMAC(alg, key, msg)

\* The key function handed to jwt.Parse: any method of type SigningMethodHMAC
\* gets the secret, every other method an error.
KeyFuncAccepts(alg) == IsHMAC(alg)

\* validateJWT through jwt.ParseUnverified: no key function, no signature check.
validateJWTUnverified(tok, sec, t) == tok # NoToken /\ tok.alg \in Algs

\* validateJWT: jwt.Parse with that key function; TRUE when it returns a
\* token with Valid set and no error.
validateJWT(tok, sec, t) ==
    /\ tok # NoToken
    /\ tok.alg \in Algs
    /\ KeyFuncAccepts(tok.alg)
    /\ MapClaimsValid(tok.claims, t)
    /\ SigningMethodVerify(tok.alg, SigningString(tok.alg, tok.claims),
                           tok.sig, sec)

\* What a client can put in the x-jwt-token header: nothing, or a token with
\* any algorithm tag and any number, MACed under any key; an HS256 token may
\* also carry the registered claim exp.
ForgedClaims(n, e) == [accountNumber |-> n, expiresAt |-> ExpiresAtLiteral, exp |-> e]

ForgedToken(alg, n, e, key) ==
    [alg |-> alg, claims |-> ForgedClaims(n, e),
     sig |-> HMAC(IF IsHMAC(alg) THEN alg ELSE "HS256", key,
                  SigningString(alg, ForgedClaims(n, e)))]

HeaderTokens ==
    {NoToken}
    \cup {ForgedToken(alg, n, NoExp, key) : alg \in Algs, n \in Numbers, key \in Secrets}
    \cup {ForgedToken("HS256", n, ExpiresAtLiteral, key) : n \in Numbers, key \in Secrets}

\* -------------------------------------------------------------- responses
Body(kind, msg, arg) == [kind |-> kind, msg |-> msg, arg |-> arg]

ApiError(msg, arg) == Body("error", msg, arg)

NoBody == Body("", "", 0)

NoResp ==
    [route |-> "", method |-> "", pathId |-> <<>>, number |-> 0,
     password |-> "", reqToken |-> NoToken, status |-> 0, body |-> NoBody,
     token |-> NoToken, ops |-> <<>>, invoked |-> FALSE,
     account |-> NoAccount]

\* What a handler hands back: the status and body it wrote, the store calls
\* it made, the table after them.
Outcome(status, body, ops, accts) ==
    [status |-> status, body |-> body, ops |-> ops, accounts |-> accts]

\* makeHttpHandleFunc: an error returned by the handler is written as
\* ApiError with StatusBadRequest.
HandlerError(msg, arg, ops, accts) ==
    Outcome(StatusBadRequest, ApiError(msg, arg), ops, accts)

\* ------------------------------------------------------------ middleware
\* A denial whose return statement is missing: the response is written and the
\* wrapped handler is called all the same.
DeniedWithoutReturn(msg, ops, account) ==
    [next |-> TRUE, status |-> StatusForbidden, body |-> ApiError(msg, 0),
     ops |-> ops, account |-> account]

\* permissionDenied and the two WriteJSON(StatusForbidden, ...) branches, each
\* followed by return: the wrapped handler is not called.
Denied(msg, ops, account) ==
    [next |-> FALSE, status |-> StatusForbidden, body |-> ApiError(msg, 0),
     ops |-> ops, account |-> account]

\* The last line of the middleware: handleFunc(w, request), nothing written.
Passed(ops, account) ==
    [next |-> TRUE, status |-> 0, body |-> NoBody, ops |-> ops,
     account |-> account]

\* The claim compared with the row's id instead of its number.
ClaimMismatchById(account, claims) == account.id # claims.accountNumber

\* account.Number != int64(claims["accountNumber"].(float64))
ClaimMismatch(account, claims) == account.number # claims.accountNumber

\* withJWTAuth: token, then path id, then the account of that id, then the
\* claim against the account's number.
withJWTAuth(tok, pathId, accts, sec, t) ==
    IF ~validateJWT(tok, sec, t)
    THEN Denied("permission denied", <<>>, NoAccount)
    ELSE LET userId == getID(pathId)
             rows   == GetAccountById(accts, userId.val)
             read   == <<<<"GetAccountById", userId.val>>>>
         IN  IF ~userId.ok
             THEN Denied("Invalid userId", <<>>, NoAccount)
             ELSE IF rows = {}
             THEN Denied("Invalid account Id", read, NoAccount)
             ELSE LET account == CHOOSE a \in rows : TRUE
                  IN  IF ClaimMismatch(account, tok.claims)
                      THEN Denied("permission denied", read, account)
                      ELSE Passed(read, account)

\* --------------------------------------------------------------- handlers
\* handleDeleteAccount, under makeHttpHandleFunc.
handleDeleteAccount(pathId, accts) ==
    LET id == getID(pathId)
    IN  IF ~id.ok
        THEN HandlerError("invalid id given", 0, <<>>, accts)
        ELSE Outcome(StatusOK, Body("deleted", "", id.val),
                     <<<<"DeleteAccount", id.val>>>>,
                     DeleteAccount(accts, id.val))

\* handleGetAccountById, under makeHttpHandleFunc: GET reads the row, DELETE
\* deletes it, any other method is an error.
handleGetAccountById(method, pathId, accts) ==
    IF method = "GET"
    THEN LET id   == getID(pathId)
             rows == GetAccountById(accts, id.val)
             read == <<<<"GetAccountById", id.val>>>>
         IN  IF ~id.ok
             THEN HandlerError("invalid id given", 0, <<>>, accts)
             ELSE IF rows = {}
             THEN HandlerError("account not found", id.val, read, accts)
             ELSE Outcome(StatusOK,
                          Body("account", "", (CHOOSE a \in rows : TRUE).number),
                          read, accts)
    ELSE IF method = "DELETE"
    THEN handleDeleteAccount(pathId, accts)
    ELSE HandlerError("Method not allowed", 0, <<>>, accts)

\* handleGetAccount, under makeHttpHandleFunc: every row.
handleGetAccount(accts) ==
    Outcome(StatusOK, Body("accounts", "", Cardinality(accts)),
            <<<<"GetAccount", 0>>>>, accts)

\* handleCreateAccount, under makeHttpHandleFunc: decode, NewAccount, insert;
\* the account written back is the one built by NewAccount.
handleCreateAccount(bodyOK, pw, number, salt, id, accts) ==
    LET made == NewAccount(pw, number, salt)
    IN  IF ~bodyOK
        THEN HandlerError("json decode", 0, <<>>, accts)
        ELSE IF ~made.ok
        THEN HandlerError("new account", 0, <<>>, accts)
        ELSE Outcome(StatusOK, Body("account", "", made.account.number),
                     <<<<"CreateAccount", made.account.number>>>>,
                     CreateAccount(accts, id, made.account))

\* handleAccount: the method switch of the unprotected route /account, which
\* has no {id} segment.
handleAccount(method, bodyOK, pw, number, salt, id, accts) ==
    IF method = "GET" THEN handleGetAccount(accts)
    ELSE IF method = "POST"
    THEN handleCreateAccount(bodyOK, pw, number, salt, id, accts)
    ELSE IF method = "DELETE" THEN handleDeleteAccount(<<>>, accts)
    ELSE HandlerError("method not allowed", 0, <<>>, accts)

\* The password check skipped.
PasswordNeverRejected(acc, pw) == FALSE

\* acc.ValidatePassword(req.Password) failed
PasswordRejected(acc, pw) == ~ValidatePassword(acc, pw)

LoginOutcome(status, body, token, account, ops) ==
    [status |-> status, body |-> body, token |-> token, account |-> account,
     ops |-> ops]

\* HandleLogin, under makeHttpHandleFunc, when the query by number returned
\* the row acc first (NoAccount: it returned no row).
HandleLoginWith(method, bodyOK, number, pw, acc, sec) ==
    LET read == <<<<"GetAccountByNumber", number>>>>
    IN  IF method # "POST"
        THEN LoginOutcome(StatusBadRequest, ApiError("method not allowed", 0),
                          NoToken, NoAccount, <<>>)
        ELSE IF ~bodyOK
        THEN LoginOutcome(StatusBadRequest, ApiError("json decode", 0),
                          NoToken, NoAccount, <<>>)
        ELSE IF acc = NoAccount
        THEN LoginOutcome(StatusBadRequest,
                          ApiError("account number not found", number),
                          NoToken, NoAccount, read)
        ELSE IF PasswordRejected(acc, pw)
        THEN LoginOutcome(StatusBadRequest, ApiError("not authenticated", 0),
                          NoToken, acc, read)
        ELSE LoginOutcome(StatusOK, Body("login", "", acc.number),
                          createJWT(acc, sec), acc, read)

\* HandleLogin: one outcome per row the query may return first.
HandleLogin(method, bodyOK, number, pw, accts, sec) ==
    LET rows == GetAccountByNumber(accts, number)
    IN  {HandleLoginWith(method, bodyOK, number, pw, acc, sec) :
            acc \in (IF rows = {} THEN {NoAccount} ELSE rows)}

\* handleTransfer, under makeHttpHandleFunc: decode and echo.
handleTransfer(bodyOK, accts) ==
    IF ~bodyOK THEN HandlerError("json decode", 0, <<>>, accts)
    ELSE Outcome(StatusOK, Body("transfer", "", 0), <<>>, accts)

\* ---------------------------------------------------------------- actions
Init ==
    /\ secret \in Secrets
    /\ accounts = {}
    /\ nextId = 1
    /\ now = 0
    /\ resp = NoResp

\* The clock advances between requests.
Tick ==
    /\ resp = NoResp
    /\ now < MaxTicks * ClockStep
    /\ now' = now + ClockStep
    /\ UNCHANGED <<secret, accounts, nextId, resp>>

\* The client reads the response.
Deliver ==
    /\ resp # NoResp
    /\ resp' = NoResp
    /\ UNCHANGED <<secret, accounts, nextId, now>>

\* router: /login
LoginRoute ==
    /\ resp = NoResp
    /\ \E method \in {"POST", "GET"}, bodyOK \in BOOLEAN,
          number \in Numbers, pw \in Passwords :
          /\ (method = "POST" /\ bodyOK) \/ (number = 1 /\ pw = "")
          /\ \E o \in HandleLogin(method, bodyOK, number, pw, accounts, secret) :
                resp' = [NoResp EXCEPT !.route = "/login", !.method = method,
                                       !.number = number, !.password = pw,
                                       !.status = o.status, !.body = o.body,
                                       !.token = o.token, !.ops = o.ops,
                                       !.account = o.account]
    /\ UNCHANGED <<secret, accounts, nextId, now>>

\* router: /account
AccountRoute ==
    /\ resp = NoResp
    /\ \E method \in Methods, bodyOK \in BOOLEAN, pw \in Passwords,
          number \in Numbers, salt \in Salts :
          /\ (method = "POST" /\ bodyOK) \/ (number = 1 /\ pw = "")
          /\ method = "POST" => nextId <= MaxAccounts
          /\ LET o == handleAccount(method, bodyOK, pw, number, salt, nextId,
                                    accounts)
             IN  /\ resp' = [NoResp EXCEPT !.route = "/account",
                                           !.method = method,
                                           !.number = number, !.password = pw,
                                           !.status = o.status,
                                           !.body = o.body, !.ops = o.ops]
                 /\ accounts' = o.accounts
                 /\ nextId' = IF o.accounts # accounts THEN nextId + 1
                              ELSE nextId
    /\ UNCHANGED <<secret, now>>

\* router: /account/{id}, withJWTAuth around handleGetAccountById.  The first
\* WriteHeader of a response is the one the client sees.
AccountByIdRoute ==
    /\ resp = NoResp
    /\ \E method \in {"GET", "DELETE", "PUT"}, pathId \in PathIds,
          tok \in HeaderTokens :
          LET a == withJWTAuth(tok, pathId, accounts, secret, now)
              h == IF a.next
                   THEN handleGetAccountById(method, pathId, accounts)
                   ELSE Outcome(0, NoBody, <<>>, accounts)
          IN  /\ resp' = [NoResp EXCEPT
                             !.route = "/account/{id}", !.method = method,
                             !.pathId = pathId, !.reqToken = tok,
                             !.status = IF a.status # 0 THEN a.status
                                        ELSE h.status,
                             !.body = IF a.status # 0 THEN a.body ELSE h.body,
                             !.ops = a.ops \o h.ops, !.invoked = a.next,
                             !.account = a.account]
              /\ accounts' = h.accounts
    /\ UNCHANGED <<secret, nextId, now>>

\* router: /transfer
TransferRoute ==
    /\ resp = NoResp
    /\ \E bodyOK \in BOOLEAN :
          LET o == handleTransfer(bodyOK, accounts)
          IN  resp' = [NoResp EXCEPT !.route = "/transfer", !.method = "POST",
                                     !.status = o.status, !.body = o.body]
    /\ UNCHANGED <<secret, accounts, nextId, now>>

Next ==
    \/ Tick
    \/ Deliver
    \/ LoginRoute
    \/ AccountRoute
    \/ AccountByIdRoute
    \/ TransferRoute

Spec == Init /\ [][Next]_vars

\* ----------------------------------------------------------------- claims
Protected == "/account/{id}"

Rejected(r) == r.status = StatusForbidden /\ ~r.invoked

SignedUnder(tok, key) ==
    SigningMethodVerify(tok.alg, SigningString(tok.alg, tok.claims), tok.sig, key)

HasOp(r, name) == \E i \in 1..Len(r.ops) : r.ops[i][1] = name

\* C1: on /account/{id} the wrapped handler is invoked only if the header's
\* token verifies under the server's secret and the account of the path id
\* has the number in the token's claim; the token login issues for number n
\* is rejected, handler not invoked, for every id whose account has another
\* number.
C1_Step ==
    (resp = NoResp /\ resp'.route = Protected) =>
        LET tok  == resp'.reqToken
            id   == getID(resp'.pathId)
            rows == GetAccountById(accounts, id.val)
        IN  /\ resp'.invoked =>
                  /\ SignedUnder(tok, secret)
                  /\ id.ok
                  /\ \E a \in rows : a.number = tok.claims.accountNumber
            /\ \A n \in Numbers :
                  (/\ tok = createJWT([NoAccount EXCEPT !.number = n], secret)
                   /\ \A a \in rows : a.number # n)
                  => Rejected(resp')

C1_TokenBoundToAccount == [][C1_Step]_vars

C1_Witness ==
    /\ resp.route = Protected
    /\ resp.reqToken = createJWT([NoAccount EXCEPT
                                     !.number = resp.reqToken.claims.accountNumber],
                                 secret)
    /\ resp.account # NoAccount
    /\ resp.account.number # resp.reqToken.claims.accountNumber
    /\ Rejected(resp)

\* C2: a token made by createJWT is rejected, handler not invoked, once the
\* clock is past the token's expiresAt.
C2_ExpiredTokenRejected ==
    (/\ secret # ""
     /\ resp.route = Protected
     /\ resp.account # NoAccount
     /\ resp.reqToken = createJWT(resp.account, secret)
     /\ now > resp.reqToken.claims.expiresAt)
    => Rejected(resp)

C4_TokenOnlyForVerifiedPassword ==
    resp.route = "/login" =>
        /\ resp.token # NoToken =>
              /\ resp.status = StatusOK
              /\ resp.account \in GetAccountByNumber(accounts, resp.number)
              /\ ValidatePassword(resp.account, resp.password)
              /\ resp.token.claims.accountNumber = resp.account.number
              /\ resp.body.arg = resp.account.number
        /\ (\A a \in GetAccountByNumber(accounts, resp.number) :
                ~ValidatePassword(a, resp.password))
           => /\ resp.token = NoToken
              /\ resp.status # StatusOK
              /\ resp.body.kind = "error"

C4_Witness ==
    /\ resp.route = "/login"
    /\ resp.method = "POST"
    /\ resp.account # NoAccount
    /\ ~ValidatePassword(resp.account, resp.password)
    /\ resp.token = NoToken
    /\ resp.body = ApiError("not authenticated", 0)

\* C5: the answer to a login that names no existing account is the answer
\* the server gives, in the same state, to a login that names an existing
\* account with a wrong password.
C5_LoginHidesExistence ==
    (/\ resp.route = "/login"
     /\ resp.method = "POST"
     /\ HasOp(resp, "GetAccountByNumber")
     /\ GetAccountByNumber(accounts, resp.number) = {})
    => \A a \in accounts, pw \in Passwords :
          ~ValidatePassword(a, pw) =>
              \A o \in HandleLogin("POST", TRUE, a.number, pw, accounts, secret) :
                  o.status = resp.status /\ o.body = resp.body

\* C6: a request that withJWTAuth answers with Forbidden leaves the table as
\* it was, issues no store call besides at most one GetAccountById, and is
\* answered the same way when it is sent again.
C6_Step ==
    (resp = NoResp /\ resp'.route = Protected /\ resp'.status = StatusForbidden) =>
        /\ accounts' = accounts
        /\ nextId' = nextId
        /\ Len(resp'.ops) <= 1
        /\ \A i \in 1..Len(resp'.ops) : resp'.ops[i][1] = "GetAccountById"
        /\ LET again == withJWTAuth(resp'.reqToken, resp'.pathId, accounts',
                                    secret', now')
           IN  /\ ~again.next
               /\ again.status = resp'.status
               /\ again.body = resp'.body

C6_FailedAuthLeavesStore == [][C6_Step]_vars

C6_Witness ==
    /\ resp.route = Protected
    /\ resp.method = "DELETE"
    /\ resp.status = StatusForbidden
    /\ resp.account \in accounts
    /\ resp.account.number # resp.reqToken.claims.accountNumber
    /\ resp.ops = <<<<"GetAccountById", resp.account.id>>>>

\* C7: with no signing secret configured, login returns no token and the
\* middleware lets no request through.
C7_NoSecretNoToken ==
    secret = "" => (resp.token = NoToken /\ ~resp.invoked)

\* C8: an error answer has status 400 for a malformed body or a bad id, 403
\* for a failed login, 404 for a row that is not found.
C8_StatusByErrorClass ==
    (resp.route # "" /\ resp.body.kind = "error") =>
        resp.status =
            CASE resp.body.msg \in {"json decode", "invalid id given", "new account"}
                    -> StatusBadRequest
              [] resp.body.msg \in {"not authenticated", "permission denied",
                                    "Invalid userId", "Invalid account Id"}
                    -> StatusForbidden
              [] resp.body.msg \in {"account number not found", "account not found"}
                    -> 404
              [] OTHER -> resp.status

\* C9: no two rows of the table have the same number.
C9_NumberUnique ==
    \A a, b \in accounts : a.number = b.number => a = b

\* C10: every DeleteAccount(id) is issued for a request on /account/{id}
\* that the middleware let through for that id, with a token that verifies
\* and whose claim is the number of row id; a DELETE on /account issues no
\* DeleteAccount and is answered with an error.
C10_Step ==
    resp = NoResp =>
        /\ \A i \in 1..Len(resp'.ops) :
              resp'.ops[i][1] = "DeleteAccount" =>
                  /\ resp'.route = Protected
                  /\ resp'.invoked
                  /\ validateJWT(resp'.reqToken, secret, now)
                  /\ getID(resp'.pathId) = [ok |-> TRUE, val |-> resp'.ops[i][2]]
                  /\ \E a \in accounts :
                        /\ a.id = resp'.ops[i][2]
                        /\ a.number = resp'.reqToken.claims.accountNumber
        /\ (resp'.route = "/account" /\ resp'.method = "DELETE") =>
              /\ accounts' = accounts
              /\ ~HasOp(resp', "DeleteAccount")
              /\ resp'.body.kind = "error"
        /\ accounts' \subseteq accounts /\ accounts' # accounts
              => HasOp(resp', "DeleteAccount")

C10_DeleteOnlyWhenAuthorized == [][C10_Step]_vars

C10_Witness ==
    /\ resp.route = Protected
    /\ resp.method = "DELETE"
    /\ resp.status = StatusOK
    /\ resp.invoked
    /\ HasOp(resp, "DeleteAccount")
    /\ resp.account \notin accounts
====
